---- MODULE Spec2Model ----
(***************************************************************************)
(* pagekite_clean.py: a launcher that checks its argument count, prints    *)
(* status lines, runs pagekite.py as a child process, waits for it and     *)
(* maps the child's return code to its own exit status.  SIGINT is an      *)
(* asynchronous event that may arrive between any two statements.          *)
(*                                                                         *)
(* A program position "Lnn" means: the statement at line nn of             *)
(* src/pagekite_clean.py is the next one to execute.                       *)
(***************************************************************************)
EXTENDS Integers, Sequences, FiniteSets, TLC

\* Bounds of the model.
MaxArgs == 3      \* most command-line arguments after the program name
MaxStatus == 2    \* largest exit status of the child
MaxSignal == 2    \* largest signal number the child may die from (SIGINT is 2)
MaxSigints == 2   \* most SIGINTs delivered to the launcher in one run

\* Command-line tokens; "myapp.pagekite.me" is not numeric and "11434" is
\* not a subdomain, so every pair order exercises the missing validation.
Tokens == {"11434", "myapp.pagekite.me"}

VARIABLES
    argv,        \* sys.argv, argv[1] being the program name (sys.argv[0])
    hasRun,      \* hasattr(subprocess, 'run')
    pc,          \* position of the main thread
    handler,     \* disposition of SIGINT in the launcher
    frame,       \* position of main at which signal_handler was first entered
    sigints,     \* number of SIGINTs delivered so far
    stdout,      \* the lines printed so far
    local_port, subdomain, cmd, ret, e,   \* locals of main
    child,       \* "none", "running", "exited" or "killed"
    childArgv,   \* the argument vector the child was started with
    returncode,  \* the child's return code once it has exited
    spawned,     \* number of child processes started
    outcome,     \* how the run ended
    exitStatus   \* the launcher's exit status, meaningful when pc = "done"

vars == <<argv, hasRun, pc, handler, frame, sigints, stdout, local_port,
          subdomain, cmd, ret, e, child, childArgv, returncode, spawned,
          outcome, exitStatus>>

locals == <<local_port, subdomain, cmd, ret, e>>
childVars == <<child, childArgv, returncode, spawned>>
sigVars == <<handler, frame, sigints>>
endVars == <<outcome, exitStatus>>
inputs == <<argv, hasRun>>

----------------------------------------------------------------------------
\* Pure parts of the program.

ArgvSet == UNION {[1..(n + 1) -> Tokens \cup {"pagekite_clean.py"}] : n \in 0..MaxArgs}

\* Return codes of a child that ended: an exit status, or minus the number
\* of the signal that killed it.
ChildCodes == (0 - MaxSignal)..MaxStatus

\* Mutant of ArgCountOk: the count is checked with the wrong comparison.
ArgCountAtLeast(a) == Len(a) >= 3

\* line 19: len(sys.argv) != 3 is the usage error
ArgCountOk(a) == Len(a) = 3

UsageLine == "Usage: python pagekite_clean.py <local_port> <subdomain.pagekite.me>"
ExampleLine == "Example: python pagekite_clean.py 11434 myapp.pagekite.me"
StartingLine == "Starting PageKite tunnel..."
LocalPortLine(lp) == "Local port: " \o lp
PublicURLLineNoScheme(sd) == "Public URL: " \o sd   \* mutant: scheme dropped
PublicURLLine(sd) == "Public URL: https://" \o sd
HintLine == "Press Ctrl+C to stop"
ShutdownLine == "\nShutting down PageKite tunnel..."
StoppedLine == "\nPageKite tunnel stopped"

\* Mutant of Cmd: the two arguments are forwarded in the wrong order.
CmdSwapped(lp, sd) == <<"sys.executable", "pagekite.py", sd, lp>>

\* lines 37-42
Cmd(lp, sd) == <<"sys.executable", "pagekite.py", lp, sd>>

\* repr of a list of strings, as str(CalledProcessError) embeds it
RECURSIVE ReprItems(_)
ReprItems(s) ==
    IF Len(s) = 0 THEN ""
    ELSE IF Len(s) = 1 THEN "'" \o s[1] \o "'"
    ELSE "'" \o s[1] \o "', " \o ReprItems(Tail(s))

Repr(s) == "[" \o ReprItems(s) \o "]"

\* Mutant of RaisesCalledProcessError: the wrong comparison, status 0 raises.
RaisesOnAnyStatus(rc) == rc >= 0

\* lines 46 (check=True) and 50: a non-zero return code raises
RaisesCalledProcessError(rc) == rc # 0

\* lines 46 and 51: the exception object
CalledProcessError(rc, c) == [returncode |-> rc, cmd |-> c]

\* Mutant of CalledProcessErrorStr: the message leaves the return code out.
CalledProcessErrorStrNoStatus(x) == "Command '" \o Repr(x.cmd) \o "' failed."

\* str(e) of line 53
CalledProcessErrorStr(x) ==
    IF x.returncode < 0
    THEN "Command '" \o Repr(x.cmd) \o "' died with signal "
             \o ToString(0 - x.returncode) \o "."
    ELSE "Command '" \o Repr(x.cmd) \o "' returned non-zero exit status "
             \o ToString(x.returncode) \o "."

\* line 53
FailedLine(x) == "PageKite failed with error: " \o CalledProcessErrorStr(x)

\* sys.exit arguments of lines 22 and 54, of line 57 and of line 15
ErrorExitStatus == 1
StoppedExitStatus == 0
HandlerExitStatusError == ErrorExitStatus   \* mutant: the handler exits 1
HandlerExitStatus == 0

\* Positions inside the try block of lines 35-51.
TryBlock == {"L37", "L45", "L46", "L46w", "L49", "L49w", "L50"}

\* Positions at which main is blocked in subprocess.run / subprocess.call.
WaitPcs == {"L46w", "L49w"}

\* Status of a run ended by a KeyboardInterrupt nobody catches: exit status 1
\* with a traceback, or death by SIGINT (interpreters from 3.8 on).
UncaughtInterruptStatus == {1, 0 - 2}

\* The child once an exception unwinds out of the wait at position f:
\* subprocess.run kills and reaps it; subprocess.call of the interpreters
\* that lack subprocess.run either does the same or leaves it running.
ChildAfterUnwind(f, c, run) ==
    IF f \in WaitPcs /\ c = "running"
    THEN IF run THEN {"killed"} ELSE {"killed", "running"}
    ELSE {c}

----------------------------------------------------------------------------
Init ==
    /\ argv \in {a \in ArgvSet : a[1] = "pagekite_clean.py"
                     /\ \A i \in 2..Len(a) : a[i] \in Tokens}
    /\ hasRun \in BOOLEAN
    /\ pc = "L19"
    /\ handler = "default_int_handler"
    /\ frame = "none"
    /\ sigints = 0
    /\ stdout = <<>>
    /\ local_port = ""
    /\ subdomain = ""
    /\ cmd = <<>>
    /\ ret = 0
    /\ e = CalledProcessError(0, <<>>)
    /\ child = "none"
    /\ childArgv = <<>>
    /\ returncode = 0
    /\ spawned = 0
    /\ outcome = "running"
    /\ exitStatus = 0

PrintLine(line, next) ==
    /\ stdout' = Append(stdout, line)
    /\ pc' = next
    /\ UNCHANGED <<inputs, sigVars, locals, childVars, endVars>>

Exit(status, how) ==
    /\ pc' = "done"
    /\ exitStatus' = status
    /\ outcome' = how
    /\ UNCHANGED <<inputs, sigVars, stdout, locals, childVars>>

\* line 19
CheckArgs ==
    /\ pc = "L19"
    /\ pc' = IF ArgCountOk(argv) THEN "L24" ELSE "L20"
    /\ UNCHANGED <<inputs, sigVars, stdout, locals, childVars, endVars>>

\* line 20
PrintUsage == pc = "L20" /\ PrintLine(UsageLine, "L21")

\* line 21
PrintExample == pc = "L21" /\ PrintLine(ExampleLine, "L22")

\* line 22
UsageExit == pc = "L22" /\ Exit(ErrorExitStatus, "UsageError")

\* lines 24-25
ReadArgs ==
    /\ pc = "L24"
    /\ local_port' = argv[2]
    /\ subdomain' = argv[3]
    /\ pc' = "L28"
    /\ UNCHANGED <<inputs, sigVars, stdout, cmd, ret, e, childVars, endVars>>

\* Mutant of Register: line 28 leaves the default handler in place.
RegisterSkipped ==
    /\ pc = "L28"
    /\ pc' = "L30"
    /\ UNCHANGED <<inputs, sigVars, stdout, locals, childVars, endVars>>

\* line 28
Register ==
    /\ pc = "L28"
    /\ handler' = "signal_handler"
    /\ pc' = "L30"
    /\ UNCHANGED <<inputs, frame, sigints, stdout, locals, childVars, endVars>>

\* lines 30-33
PrintStarting == pc = "L30" /\ PrintLine(StartingLine, "L31")
PrintLocalPort == pc = "L31" /\ PrintLine(LocalPortLine(local_port), "L32")
PrintPublicURL == pc = "L32" /\ PrintLine(PublicURLLine(subdomain), "L33")
PrintHint == pc = "L33" /\ PrintLine(HintLine, "L37")

\* lines 37-42
BuildCmd ==
    /\ pc = "L37"
    /\ cmd' = Cmd(local_port, subdomain)
    /\ pc' = "L45"
    /\ UNCHANGED <<inputs, sigVars, stdout, local_port, subdomain, ret, e,
                   childVars, endVars>>

\* line 45
ChooseApi ==
    /\ pc = "L45"
    /\ pc' = IF hasRun THEN "L46" ELSE "L49"
    /\ UNCHANGED <<inputs, sigVars, stdout, locals, childVars, endVars>>

\* lines 46 and 49: the child process is created and main starts to wait
Spawn ==
    /\ pc \in {"L46", "L49"}
    /\ child' = "running"
    /\ childArgv' = cmd
    /\ spawned' = spawned + 1
    /\ pc' = IF pc = "L46" THEN "L46w" ELSE "L49w"
    /\ UNCHANGED <<inputs, sigVars, stdout, locals, returncode, endVars>>

\* lines 46 and 49: creating the process raises OSError, which no except
\* clause of lines 52-57 matches; the interpreter ends with a traceback.
SpawnFails ==
    /\ pc \in {"L46", "L49"}
    /\ Exit(ErrorExitStatus, "OSError")

\* The child ends on its own, by exit or by a signal.
ChildExits ==
    /\ child = "running"
    /\ \E rc \in ChildCodes : returncode' = rc
    /\ child' = "exited"
    /\ UNCHANGED <<inputs, pc, sigVars, stdout, locals, childArgv, spawned,
                   endVars>>

\* Mutant of WaitRun: the call returns without waiting for the child.
WaitRunNoBlock ==
    /\ pc = "L46w"
    /\ pc' = "L60"
    /\ UNCHANGED <<inputs, sigVars, stdout, locals, childVars, endVars>>

\* line 46: subprocess.run(cmd, check=True) returns or raises once the
\* child has ended
WaitRun ==
    /\ pc = "L46w"
    /\ child = "exited"
    /\ IF RaisesCalledProcessError(returncode)
       THEN e' = CalledProcessError(returncode, cmd) /\ pc' = "L53"
       ELSE e' = e /\ pc' = "L60"
    /\ UNCHANGED <<inputs, sigVars, stdout, local_port, subdomain, cmd, ret,
                   childVars, endVars>>

\* line 49: subprocess.call(cmd) returns once the child has ended
WaitCall ==
    /\ pc = "L49w"
    /\ child = "exited"
    /\ ret' = returncode
    /\ pc' = "L50"
    /\ UNCHANGED <<inputs, sigVars, stdout, local_port, subdomain, cmd, e,
                   childVars, endVars>>

\* lines 50-51
CheckRet ==
    /\ pc = "L50"
    /\ IF RaisesCalledProcessError(ret)
       THEN e' = CalledProcessError(ret, cmd) /\ pc' = "L53"
       ELSE e' = e /\ pc' = "L60"
    /\ UNCHANGED <<inputs, sigVars, stdout, local_port, subdomain, cmd, ret,
                   childVars, endVars>>

\* line 53
PrintFailed == pc = "L53" /\ PrintLine(FailedLine(e), "L54")

\* Mutant of FailedExit: the failure is retried instead of ending the run.
FailedRetry ==
    /\ pc = "L54"
    /\ pc' = "L45"
    /\ UNCHANGED <<inputs, sigVars, stdout, locals, childVars, endVars>>

\* line 54
FailedExit == pc = "L54" /\ Exit(ErrorExitStatus, "ChildFailed")

\* lines 60-61: main returns and the interpreter ends with status 0
MainReturns == pc = "L60" /\ Exit(0, "Success")

\* A SIGINT is delivered.  With signal_handler installed (line 28) the
\* handler of lines 12-15 is entered.  With the interpreter's default
\* handler a KeyboardInterrupt is raised at the current position: inside the
\* try block lines 55-57 catch it, elsewhere nothing does.
Sigint ==
    /\ pc # "done"
    /\ sigints < MaxSigints
    /\ sigints' = sigints + 1
    /\ UNCHANGED <<inputs, handler, locals, childArgv, returncode, spawned>>
    /\ IF handler = "signal_handler"
       THEN /\ pc' = "H14"
            /\ frame' = IF pc \in {"H14", "H15"} THEN frame ELSE pc
            /\ UNCHANGED <<stdout, child, endVars>>
       ELSE IF pc \in TryBlock
       THEN /\ stdout' = Append(stdout, StoppedLine)
            /\ pc' = "done"
            /\ exitStatus' = StoppedExitStatus
            /\ outcome' = "KeyboardInterrupt caught"
            /\ \E c \in ChildAfterUnwind(pc, child, hasRun) : child' = c
            /\ frame' = frame
       ELSE /\ pc' = "done"
            /\ \E st \in UncaughtInterruptStatus : exitStatus' = st
            /\ outcome' = "KeyboardInterrupt uncaught"
            /\ UNCHANGED <<stdout, child, frame>>

\* line 14
HandlerPrint == pc = "H14" /\ PrintLine(ShutdownLine, "H15")

\* line 15: sys.exit(0) raises SystemExit in the interrupted frame; no
\* except clause of main matches it, so it ends the interpreter.
HandlerExit ==
    /\ pc = "H15"
    /\ pc' = "done"
    /\ exitStatus' = HandlerExitStatus
    /\ outcome' = "UserInterrupt"
    /\ \E c \in ChildAfterUnwind(frame, child, hasRun) : child' = c
    /\ UNCHANGED <<inputs, sigVars, stdout, locals, childArgv, returncode,
                   spawned>>

Next ==
    \/ CheckArgs \/ PrintUsage \/ PrintExample \/ UsageExit
    \/ ReadArgs \/ Register
    \/ PrintStarting \/ PrintLocalPort \/ PrintPublicURL \/ PrintHint
    \/ BuildCmd \/ ChooseApi \/ Spawn \/ SpawnFails \/ ChildExits
    \/ WaitRun \/ WaitCall \/ CheckRet
    \/ PrintFailed \/ FailedExit \/ MainReturns
    \/ Sigint \/ HandlerPrint \/ HandlerExit

Spec == Init /\ [][Next]_vars

TypeOK ==
    /\ pc \in {"L19", "L20", "L21", "L22", "L24", "L28", "L30", "L31", "L32",
               "L33", "L37", "L45", "L46", "L46w", "L49", "L49w", "L50",
               "L53", "L54", "L60", "H14", "H15", "done"}
    /\ child \in {"none", "running", "exited", "killed"}
    /\ sigints \in 0..MaxSigints
    /\ returncode \in ChildCodes
----------------------------------------------------------------------------
\* Properties.

Last(s) == s[Len(s)]

\* The status lines of lines 30-33, for any arguments.
StatusLines ==
    {StartingLine, HintLine}
        \cup {LocalPortLine(t) : t \in Tokens}
        \cup {PublicURLLine(t) : t \in Tokens}

\* Every error message line 53 can print for the command c.
FailedLines(c) == {FailedLine(CalledProcessError(n, c)) : n \in ChildCodes}

\* Positions from which the code only reports and ends the run: the usage
\* error (lines 20-22), the child failure (lines 53-54), the handler
\* (lines 14-15) and the end.
EndingPcs == {"L20", "L21", "L22", "L53", "L54", "H14", "H15", "done"}

\* Positions after the registration of line 28.
AfterRegistration ==
    {"L30", "L31", "L32", "L33", "L53", "L54", "L60", "H14", "H15"}
        \cup TryBlock

\* C1: a run whose argument count is not two never spawns the child and
\* prints no status line, and unless a SIGINT ends it first it prints the
\* usage text and the example and ends with exit status 1.
C1_UsageError ==
    Len(argv) # 3 =>
        /\ spawned = 0
        /\ child = "none"
        /\ \A i \in 1..Len(stdout) : stdout[i] \notin StatusLines
        /\ (pc = "done" /\ sigints = 0 =>
                /\ exitStatus = 1
                /\ outcome = "UsageError"
                /\ stdout = <<UsageLine, ExampleLine>>)

\* Three arguments: the usage error has been reported and the run is over.
C1_Witness ==
    /\ Len(argv) = 4
    /\ pc = "done"
    /\ exitStatus = 1
    /\ stdout = <<UsageLine, ExampleLine>>

\* C2: when the child of a two-argument run ends with a return code N # 0
\* and no SIGINT reaches the launcher, the last line printed is the error
\* message for N (and for no other code), it is printed before sys.exit is
\* called, and the exit status is 1.
C2_ChildFailed ==
    /\ pc = "L54" =>
           /\ Len(stdout) > 0
           /\ Last(stdout) = FailedLine(CalledProcessError(returncode, childArgv))
    /\ (pc = "done" /\ Len(argv) = 3 /\ child = "exited" /\ returncode # 0
            /\ sigints = 0) =>
           /\ exitStatus = 1
           /\ outcome = "ChildFailed"
           /\ Len(stdout) > 0
           /\ Last(stdout) = FailedLine(CalledProcessError(returncode, childArgv))
           /\ \A n \in ChildCodes \ {returncode} :
                  Last(stdout) # FailedLine(CalledProcessError(n, childArgv))

\* The child exited with status 2 and the run ended as a child failure.
C2_Witness ==
    /\ pc = "done"
    /\ outcome = "ChildFailed"
    /\ child = "exited"
    /\ returncode = 2
    /\ sigints = 0

\* C3: when a SIGINT arrives while main waits for the child, the launcher
\* only runs the handler and ends: the shutdown message is the last line
\* printed before the exit, and the exit status is 0, never 1.
C3_InterruptWhileWaiting ==
    frame \in WaitPcs =>
        /\ pc \in {"H14", "H15", "done"}
        /\ pc = "H15" => Len(stdout) > 0 /\ Last(stdout) = ShutdownLine
        /\ pc = "done" =>
               /\ exitStatus = 0
               /\ exitStatus # 1
               /\ outcome = "UserInterrupt"
               /\ Len(stdout) > 0
               /\ Last(stdout) = ShutdownLine

\* The SIGINT arrived while the child was running; the run has ended and
\* the child was killed on the way out.
C3_Witness ==
    /\ frame \in WaitPcs
    /\ pc = "done"
    /\ child = "killed"
    /\ exitStatus = 0

\* C4: when the child of a two-argument run exits with status 0, the
\* launcher ends with exit status 0 and has printed no error message.
C4_ChildSucceeded ==
    (pc = "done" /\ Len(argv) = 3 /\ child = "exited" /\ returncode = 0) =>
        /\ exitStatus = 0
        /\ \A i \in 1..Len(stdout) : stdout[i] \notin FailedLines(childArgv)

\* The launcher saw the child exit with status 0 and returned from main.
C4_Witness ==
    /\ pc = "done"
    /\ outcome = "Success"
    /\ child = "exited"
    /\ returncode = 0

\* C5: every terminated run has exit status 0 or 1, status 1 exactly for a
\* usage error or a child failure and status 0 exactly for a child success
\* or a graceful interrupt, and no run ends in any other way.  Stated for
\* the runs no SIGINT reaches.
C5_ExitCodes ==
    (pc = "done" /\ sigints = 0) =>
        /\ exitStatus \in {0, 1}
        /\ exitStatus = 1 <=> outcome \in {"UsageError", "ChildFailed"}
        /\ exitStatus = 0 <=> outcome \in {"Success", "UserInterrupt"}

\* C6: once the child is about to be spawned or has been spawned, the
\* first three lines printed are the tunnel-starting line, the local port
\* and the public URL https://<subdomain>.
C6_StatusBeforeSpawn ==
    (spawned > 0 \/ child # "none" \/ pc \in {"L46", "L49"}) =>
        /\ Len(argv) = 3
        /\ Len(stdout) >= 3
        /\ stdout[1] = "Starting PageKite tunnel..."
        /\ stdout[2] = "Local port: " \o argv[2]
        /\ stdout[3] = "Public URL: https://" \o argv[3]

\* The example of the documentation: the child runs and the URL line reads
\* https://myapp.pagekite.me.
C6_Witness ==
    /\ child = "running"
    /\ pc \in WaitPcs
    /\ Len(stdout) >= 3
    /\ stdout[3] = "Public URL: https://myapp.pagekite.me"

\* C7: a spawned child was started with the interpreter, pagekite.py, the
\* first argument and the second argument, in that order and unchanged;
\* a two-argument run is never rejected as a usage error, and unless a
\* SIGINT ends it first it always reaches the attempt to spawn.
C7_ArgsForwarded ==
    /\ child # "none" =>
           /\ Len(argv) = 3
           /\ childArgv = <<"sys.executable", "pagekite.py", argv[2], argv[3]>>
    /\ Len(argv) = 3 => outcome # "UsageError"
    /\ (Len(argv) = 3 /\ pc = "done" /\ sigints = 0) =>
           (spawned = 1 \/ outcome = "OSError")

\* A port that is no number and a subdomain that is one are forwarded.
C7_Witness ==
    /\ child # "none"
    /\ Len(argv) = 3
    /\ argv[2] = "myapp.pagekite.me"
    /\ argv[3] = "11434"
    /\ childArgv[3] = "myapp.pagekite.me"

\* C8: the child is spawned at most once, and only from a position outside
\* the reporting paths: after a usage error, a child failure or an
\* interrupt the launcher stays on its way to termination and spawns
\* nothing.
C8_SpawnAtMostOnce ==
    [][/\ spawned' <= 1
       /\ spawned' # spawned => spawned = 0 /\ pc \notin EndingPcs
       /\ pc \in EndingPcs => pc' \in EndingPcs /\ spawned' = spawned]_vars

\* A child failure has ended the run, with one child spawned.
C8_Witness ==
    /\ pc = "done"
    /\ outcome = "ChildFailed"
    /\ spawned = 1

\* C9: main leaves the wait only when the child has exited or a SIGINT
\* enters the handler; a run that ends with the success or the
\* child-failure outcome has a child that exited, and a run that ends while
\* the child is still running ended by the interrupt.
C9_BlockedUntilChildExits ==
    [][/\ (pc \in WaitPcs /\ pc' \notin WaitPcs) =>
              (child = "exited" \/ pc' = "H14")
       /\ (pc # "done" /\ pc' = "done" /\ child' = "running") =>
              outcome' = "UserInterrupt"
       /\ (pc' = "done" /\ outcome' \in {"Success", "ChildFailed"}) =>
              child' = "exited"]_vars

\* The interrupt ended the launcher while the child was still running.
C9_Witness ==
    /\ pc = "done"
    /\ child = "running"
    /\ outcome = "UserInterrupt"

\* C10: signal_handler is installed at every position after line 28 and
\* before any status line is printed; a SIGINT delivered while it is
\* installed enters it, and the run then only prints the shutdown message
\* and ends with exit status 0; the KeyboardInterrupt branch never runs
\* and 'PageKite tunnel stopped' is never printed.
C10_HandlerAlwaysInstalled ==
    /\ pc \in AfterRegistration => handler = "signal_handler"
    /\ handler = "default_int_handler" =>
           \A i \in 1..Len(stdout) : stdout[i] \notin StatusLines
    /\ (sigints > 0 /\ handler = "signal_handler") => frame # "none"
    /\ frame # "none" =>
           /\ pc \in {"H14", "H15", "done"}
           /\ pc = "done" =>
                  /\ exitStatus = 0
                  /\ outcome = "UserInterrupt"
                  /\ Len(stdout) > 0
                  /\ Last(stdout) = ShutdownLine
    /\ outcome # "KeyboardInterrupt caught"
    /\ \A i \in 1..Len(stdout) : stdout[i] # StoppedLine

\* Two SIGINTs, the first while the child-failure message was about to be
\* printed: the handler ended the run with status 0.
C10_Witness ==
    /\ frame = "L53"
    /\ sigints = 2
    /\ pc = "done"
    /\ outcome = "UserInterrupt"
====
